---- MODULE Spec2Model ----
(***************************************************************************)
(* A model of indi_aws/aws_utils.py: the bulk S3 operations s3_rename,    *)
(* s3_delete, s3_download and s3_upload over a bucket and a local file     *)
(* system, and the ProgressPercentage callback.  Every remote call is a    *)
(* step whose result the environment chooses: it returns, raises           *)
(* botocore's ClientError, or raises some other exception.                 *)
(***************************************************************************)
EXTENDS Naturals, Sequences, FiniteSets, TLC

VARIABLES
    store,        \* the bucket: key -> object or NoObject
    fs,           \* the local file system: path -> NoEntry, Dir or a file
    op,           \* the function called: "rename", "delete", "download", "upload", "progress"
    src_list,     \* first list of the tuple argument (bucket_keys for s3_delete)
    dst_list,     \* second list of the tuple argument
    keep_old,     \* s3_rename's keep_old
    make_public,  \* make_public of s3_rename and s3_upload
    encrypt,      \* s3_upload's encrypt
    prefix,       \* md5_sum's prefix
    filt_str,     \* md5_sum's filt_str
    pc,           \* position in the function body
    idx,          \* 1-based position of the for loop
    raised,       \* the exception that left the function, or "none"
    calls,        \* remote and file-system calls issued by the current call, in order
    out,          \* lines printed by the current call, in order
    outcome,      \* per pair of the current call: how its iteration ended
    store0,       \* the bucket as it was when the current call started
    fs0,          \* the file system as it was when the current call started
    pair0,        \* bucket and file system as they were when the current iteration began
    history,      \* the calls that ended before the current one
    blist,        \* md5_sum's blist: the keys the listing yields, in its order
    md5_dict,     \* md5_sum's md5_dict
    size,         \* ProgressPercentage._size
    seen_so_far,  \* ProgressPercentage._seen_so_far
    lock,         \* ProgressPercentage._lock: its holder, or NoThread
    tpc,          \* per worker thread: position in __call__
    treg,         \* per worker thread: the value loaded by += before it is stored
    tbytes,       \* per worker thread: bytes_amount of the call it is in
    tleft,        \* per worker thread: the calls it has still to return from
    passed,       \* the sum of the byte counts passed to __call__ so far
    stdout        \* the progress line last written: each ends in a carriage return

vars == <<store, fs, op, src_list, dst_list, keep_old, make_public, encrypt,
          prefix, filt_str,
          pc, idx, raised, calls, out, outcome, store0, fs0, pair0, history,
          blist, md5_dict,
          size, seen_so_far, lock, tpc, treg, tbytes, tleft, passed, stdout>>

bucketVars == <<store, fs>>
argVars == <<op, src_list, dst_list, keep_old, make_public, encrypt, prefix, filt_str>>
callVars == <<pc, idx, raised, calls, out, outcome, store0, fs0, pair0, history,
              blist, md5_dict>>
progressVars == <<size, seen_so_far, lock, tpc, treg, tbytes, tleft, passed, stdout>>

(***************************************************************************)
(* Bounds of the model.                                                    *)
(***************************************************************************)
MaxLen == 2       \* longest list passed to a bulk operation
NumWorkers == 2   \* worker threads delivering progress callbacks
MaxChunks == 2    \* callbacks delivered by one worker thread
MaxBytes == 2     \* largest byte count of one callback

\* Keys and paths are sequences of their '/'-separated components
Keys == {<<"a">>, <<"b">>}

\* "s3://bucket/a" and "s3://bucket/f"
QualifiedKey == <<"s3:", "", "bucket", "a">>

QualifiedPath == <<"s3:", "", "bucket", "f">>

StoreKeys == Keys \cup {QualifiedKey}

Contents == {"c1", "c2"}
NoThread == 0

(***************************************************************************)
(* Checksums.  hashlib.md5(...).hexdigest() of a content; the ETag the     *)
(* store reports is that digest (or, for a multipart upload, a digest of   *)
(* the parts' digests with a part count) between double quotes.            *)
(***************************************************************************)
Quote == "\""

\* A string is the sequence of its pieces
MD5(content) == <<"md5:" \o content>>

MultipartDigest(content) == <<"md5parts:" \o content, "-2">>

SinglePartETag(content) == <<Quote>> \o MD5(content) \o <<Quote>>

MultipartETag(content) == <<Quote>> \o MultipartDigest(content) \o <<Quote>>

RECURSIVE LStrip(_)
LStrip(s) == IF Len(s) > 0 /\ Head(s) = Quote THEN LStrip(Tail(s)) ELSE s

RECURSIVE RStrip(_)
RStrip(s) ==
    IF Len(s) > 0 /\ s[Len(s)] = Quote THEN RStrip(SubSeq(s, 1, Len(s) - 1)) ELSE s

\* str.strip('"'): the string without its leading and trailing quote characters
Strip(s) == RStrip(LStrip(s))

\* The checksum string the functions compare: e_tag.strip('"')
StrippedBroken(etag) == etag

Stripped(etag) == Strip(etag)

(***************************************************************************)
(* The bucket.                                                             *)
(***************************************************************************)
\* big: the content length is over the transfer's multipart threshold
Object(content, big, etag, acl, sse) ==
    [body |-> content, big |-> big, etag |-> etag, acl |-> acl, sse |-> sse]

\* What the bucket holds under a key no object is stored at
NoObject == Object("", FALSE, <<>>, "", FALSE)

Exists(k) == store[k] # NoObject

\* Results of a remote call: it returns, raises ClientError, or raises another
\* exception (a connection error, for instance)
Failures == {"ClientError", "OtherError"}

\* Object.get(): it can return only for a key that exists
GetResults(k) == IF Exists(k) THEN {"ok"} \cup Failures ELSE Failures

CallResults == {"ok"} \cup Failures

NumFiles == Len(src_list)

Pairs == 1 .. NumFiles

\* A call made by the function: the remote key or the local path it is about
Call(name, i, key, result) == [call |-> name, idx |-> i, key |-> key, result |-> result]

Line(text, i) == [text |-> text, idx |-> i]

Ended == pc \in {"done", "raised"}

\* The for loop goes on to the next element when there is one; otherwise the
\* function returns None
NextIteration(i, how) ==
    /\ idx' = i + 1
    /\ pc' = IF i + 1 > NumFiles THEN "done" ELSE "loop"
    /\ outcome' = [outcome EXCEPT ![i] = how]
    /\ raised' = raised

\* An exception no handler catches leaves the function
Raise(i, exc) ==
    /\ pc' = "raised"
    /\ raised' = exc
    /\ idx' = idx
    /\ outcome' = IF i \in DOMAIN outcome THEN [outcome EXCEPT ![i] = "failed"] ELSE outcome

(***************************************************************************)
(* The local file system.  A path is the sequence of its components, so    *)
(* <<"d", "e", "h">> is d/e/h and <<>> is the empty string.                *)
(***************************************************************************)
Paths == {<<"f">>, <<"d">>, <<"d", "e">>, <<"d", "e", "h">>}

NoEntry == [kind |-> "none", body |-> "", big |-> FALSE]

Dir == [kind |-> "dir", body |-> "", big |-> FALSE]

\* A regular file; big: its size is over the transfer's multipart threshold
File(content, big) == [kind |-> "file", body |-> content, big |-> big]

\* os.path.dirname
Dirname(path) == SubSeq(path, 1, Len(path) - 1)

\* os.path.exists: false for the empty string
PathExists(path) == path \in Paths /\ fs[path].kind # "none"

\* os.path.isdir
IsDir(path) == path \in Paths /\ fs[path].kind = "dir"

IsFile(path) == path \in Paths /\ fs[path].kind = "file"

\* The directory an entry of this path is made in is there: the working
\* directory for a path of one component
ParentIsDir(path) == Len(path) = 1 \/ IsDir(Dirname(path))

Prefixes(path) == {SubSeq(path, 1, n) : n \in 1 .. Len(path)}

\* os.makedirs(dirname) cannot work for the empty string (FileNotFoundError),
\* nor below a regular file (NotADirectoryError)
MakedirsFails(dirname) ==
    \/ dirname = <<>>
    \/ \E q \in Prefixes(dirname) : IsFile(q)

\* The file system after os.makedirs(dirname): the missing directories on
\* the way are made
Makedirs(dirname) ==
    [p \in Paths |-> IF p \in Prefixes(dirname) /\ fs[p].kind = "none" THEN Dir ELSE fs[p]]

\* hashlib.md5(open(path, 'rb').read()).hexdigest()
LocalMD5(path) == MD5(fs[path].body)

(***************************************************************************)
(* s3_rename                                                               *)
(***************************************************************************)
\* Lines 144-154: the lists must be equally long
RenameLengthsDiffer == Len(src_list) # Len(dst_list)

RenameCheck ==
    /\ op = "rename" /\ pc = "start"
    /\ IF RenameLengthsDiffer
       THEN /\ pc' = "raised"
            /\ raised' = "ValueError"
       ELSE /\ pc' = IF NumFiles = 0 THEN "done" ELSE "loop"
            /\ raised' = raised
    /\ UNCHANGED <<bucketVars, argVars, idx, calls, out, outcome, store0, fs0,
                   pair0, history, progressVars,
                   blist, md5_dict>>

\* Lines 161 and 275: except ClientError takes the source as missing
SourceMissingBroken(r) == FALSE

SourceMissing(r) == r = "ClientError"

\* Lines 158-163: src_key.get(); a ClientError means the source is skipped
RenameSrcGet ==
    /\ op = "rename" /\ pc = "loop"
    /\ \E r \in GetResults(src_list[idx]) :
        /\ calls' = Append(calls, Call("get", idx, src_list[idx], r))
        /\ CASE r = "ok" ->
                  /\ pc' = "dst_get"
                  /\ UNCHANGED <<idx, raised, out, outcome>>
             [] SourceMissing(r) ->
                  /\ out' = Append(out, Line("source does not exist, skipping", idx))
                  /\ NextIteration(idx, "skipped")
             [] OTHER ->
                  /\ Raise(idx, r)
                  /\ out' = out
    /\ pair0' = [store |-> store, fs |-> fs]
    /\ UNCHANGED <<bucketVars, argVars, store0, fs0, history, progressVars,
                   blist, md5_dict>>

\* Lines 166-174: dst_obj.get(); the copy is made in the ClientError handler
RenameDstExists(r) == r = "ok"

RenameDstGet ==
    /\ op = "rename" /\ pc = "dst_get"
    /\ \E r \in GetResults(dst_list[idx]) :
        /\ calls' = Append(calls, Call("get", idx, dst_list[idx], r))
        /\ CASE RenameDstExists(r) ->
                  /\ out' = Append(out, Line("Destination key exists, skipping", idx))
                  /\ NextIteration(idx, "skipped")
             [] r = "OtherError" ->
                  /\ Raise(idx, r)
                  /\ out' = out
             [] OTHER ->
                  /\ out' = Append(out, Line("copying source to destination", idx))
                  /\ pc' = "copy"
                  /\ UNCHANGED <<idx, raised, outcome>>
    /\ UNCHANGED <<bucketVars, argVars, store0, fs0, pair0, history, progressVars,
                   blist, md5_dict>>

\* The object dst_obj.copy_from leaves at the destination
CopiedObject(src, public) ==
    [store[src] EXCEPT !.acl = IF public THEN "public-read" ELSE "private"]

\* Line 183: the source is deleted unless keep_old
RenameDeletesBroken == TRUE

RenameDeletes == ~keep_old

\* Lines 178-183: line 183 is reached only when dst_obj.copy_from returned
CopyReturnedBroken(r) == TRUE

CopyReturned(r) == r = "ok"

\* Lines 176-183: dst_obj.copy_from(...); its exception is raised inside the
\* handler, so nothing catches it
RenameCopy ==
    /\ op = "rename" /\ pc = "copy"
    /\ \E r \in CallResults :
        /\ calls' = Append(calls, Call("copy_from", idx, dst_list[idx], r))
        /\ out' = IF make_public THEN Append(out, Line("making public", idx)) ELSE out
        /\ IF CopyReturned(r)
           THEN /\ store' = [store EXCEPT ![dst_list[idx]] = CopiedObject(src_list[idx], make_public)]
                /\ IF RenameDeletes
                   THEN /\ pc' = "delete"
                        /\ UNCHANGED <<idx, raised, outcome>>
                   ELSE NextIteration(idx, "transferred")
           ELSE /\ Raise(idx, r)
                /\ store' = store
    /\ UNCHANGED <<fs, argVars, store0, fs0, pair0, history, progressVars,
                   blist, md5_dict>>

\* Lines 158 and 184: the object deleted is src_key, the one of the source key
DeletedKeyBroken(i) == dst_list[i]

DeletedKey(i) == src_list[i]

\* Line 184: src_key.delete(), then the status line of lines 187-189
RenameDelete ==
    /\ op = "rename" /\ pc = "delete"
    /\ \E r \in CallResults :
        /\ calls' = Append(calls, Call("delete", idx, DeletedKey(idx), r))
        /\ IF r = "ok"
           THEN /\ store' = [store EXCEPT ![DeletedKey(idx)] = NoObject]
                /\ NextIteration(idx, "transferred")
           ELSE /\ Raise(idx, r)
                /\ store' = store
    /\ UNCHANGED <<fs, argVars, out, store0, fs0, pair0, history, progressVars,
                   blist, md5_dict>>

(***************************************************************************)
(* s3_delete                                                               *)
(***************************************************************************)
\* Line 230: except Exception catches every failure of the delete
DeleteCatchesBroken(r) == r = "ClientError"

DeleteCatches(r) == r \in Failures

\* Lines 221-232: one iteration
DeleteKey ==
    /\ op = "delete" /\ pc = "loop"
    /\ \E r \in CallResults :
        /\ calls' = Append(calls, Call("delete", idx, src_list[idx], r))
        /\ CASE r = "ok" ->
                  /\ store' = [store EXCEPT ![src_list[idx]] = NoObject]
                  /\ out' = Append(Append(out, Line("attempting to delete", idx)),
                                   Line("Done deleting", idx))
                  /\ NextIteration(idx, "deleted")
             [] DeleteCatches(r) ->
                  /\ store' = store
                  /\ out' = Append(Append(out, Line("attempting to delete", idx)),
                                   Line("Unable to delete bucket key", idx))
                  /\ NextIteration(idx, "failed")
             [] OTHER ->
                  /\ store' = store
                  /\ out' = Append(out, Line("attempting to delete", idx))
                  /\ Raise(idx, r)
    /\ pair0' = [store |-> store, fs |-> fs]
    /\ UNCHANGED <<fs, argVars, store0, fs0, history, progressVars,
                   blist, md5_dict>>

\* Lines 217-221 with an empty list: the loop body never runs
DeleteStart ==
    /\ op = "delete" /\ pc = "start"
    /\ pc' = IF NumFiles = 0 THEN "done" ELSE "loop"
    /\ UNCHANGED <<bucketVars, argVars, idx, raised, calls, out, outcome, store0,
                   fs0, pair0, history, progressVars,
                   blist, md5_dict>>

(***************************************************************************)
(* s3_download                                                             *)
(***************************************************************************)
\* Lines 262-267: no comparison of the lists' lengths is made
DownloadStart ==
    /\ op = "download" /\ pc = "start"
    /\ pc' = IF NumFiles = 0 THEN "done" ELSE "loop"
    /\ UNCHANGED <<bucketVars, argVars, idx, raised, calls, out, outcome, store0,
                   fs0, pair0, history, progressVars,
                   blist, md5_dict>>

\* Line 296: the local file is the object already
AlreadyDownloaded(key, path) == LocalMD5(path) = Stripped(store[key].etag)

\* Line 292: a directory at the destination is passed over
DestinationIsDir(path) == IsDir(path)

\* Lines 283-308, after bobj.get() returned: the parent directory is made,
\* then the local path decides what is done
DownloadDecide(key) ==
    IF idx > Len(dst_list)
    THEN /\ Raise(idx, "IndexError")
         /\ UNCHANGED <<fs, out>>
         /\ calls' = Append(calls, Call("get", idx, key, "ok"))
    ELSE LET local_path == dst_list[idx]
             dirname == Dirname(local_path)
             made == ~PathExists(dirname)
             got == Append(calls, Call("get", idx, key, "ok"))
         IN  IF made /\ MakedirsFails(dirname)
             THEN /\ Raise(idx, "OSError")
                  /\ UNCHANGED <<fs, out>>
                  /\ calls' = Append(got, Call("makedirs", idx, dirname, "OSError"))
             ELSE /\ fs' = IF made THEN Makedirs(dirname) ELSE fs
                  /\ calls' = IF made THEN Append(got, Call("makedirs", idx, dirname, "ok"))
                              ELSE got
                  /\ IF PathExists(local_path)
                     THEN IF DestinationIsDir(local_path)
                          THEN /\ NextIteration(idx, "skipped")
                               /\ out' = out
                          ELSE IF AlreadyDownloaded(key, local_path)
                               THEN /\ NextIteration(idx, "skipped")
                                    /\ out' = Append(Append(out,
                                           Line("Skipping, already downloaded", idx)),
                                           Line("finished file", idx))
                               ELSE /\ pc' = "overwrite"
                                    /\ out' = Append(out, Line("Overwriting", idx))
                                    /\ UNCHANGED <<idx, raised, outcome>>
                     ELSE /\ pc' = "download"
                          /\ out' = Append(out, Line("Downloading", idx))
                          /\ UNCHANGED <<idx, raised, outcome>>

\* Lines 269-278: bobj.get(); a ClientError means the pair is skipped
DownloadGet ==
    /\ op = "download" /\ pc = "loop"
    /\ \E r \in GetResults(src_list[idx]) :
        CASE r = "ok" -> DownloadDecide(src_list[idx])
          [] SourceMissing(r) ->
               /\ calls' = Append(calls, Call("get", idx, src_list[idx], r))
               /\ out' = Append(out, Line("does not exist in S3 bucket, Skipping", idx))
               /\ NextIteration(idx, "skipped")
               /\ fs' = fs
          [] OTHER ->
               /\ calls' = Append(calls, Call("get", idx, src_list[idx], r))
               /\ Raise(idx, r)
               /\ UNCHANGED <<fs, out>>
    /\ pair0' = [store |-> store, fs |-> fs]
    /\ UNCHANGED <<store, argVars, store0, fs0, history, progressVars,
                   blist, md5_dict>>

\* bucket.download_file cannot return when the file cannot be made
DownloadResults(path) == IF ParentIsDir(path) /\ ~IsDir(path) THEN CallResults ELSE Failures

\* The file bucket.download_file leaves at the local path
Downloaded(key, path) == [fs EXCEPT ![path] = File(store[key].body, store[key].big)]

\* Lines 299-306: the download over an existing file is inside try/except Exception
DownloadOverwrite ==
    /\ op = "download" /\ pc = "overwrite"
    /\ \E r \in DownloadResults(dst_list[idx]) :
        /\ calls' = Append(calls, Call("download_file", idx, dst_list[idx], r))
        /\ IF r = "ok"
           THEN /\ fs' = Downloaded(src_list[idx], dst_list[idx])
                /\ out' = Append(out, Line("finished file", idx))
                /\ NextIteration(idx, "transferred")
           ELSE /\ fs' = fs
                /\ out' = Append(Append(out, Line("Could not download file", idx)),
                                 Line("finished file", idx))
                /\ NextIteration(idx, "failed")
    /\ UNCHANGED <<store, argVars, store0, fs0, pair0, history, progressVars,
                   blist, md5_dict>>

\* Lines 308-310: the download to a new file is inside no try
DownloadNew ==
    /\ op = "download" /\ pc = "download"
    /\ \E r \in DownloadResults(dst_list[idx]) :
        /\ calls' = Append(calls, Call("download_file", idx, dst_list[idx], r))
        /\ IF r = "ok"
           THEN /\ fs' = Downloaded(src_list[idx], dst_list[idx])
                /\ out' = Append(out, Line("finished file", idx))
                /\ NextIteration(idx, "transferred")
           ELSE /\ fs' = fs
                /\ out' = out
                /\ Raise(idx, r)
    /\ UNCHANGED <<store, argVars, store0, fs0, pair0, history, progressVars,
                   blist, md5_dict>>

(***************************************************************************)
(* s3_upload                                                               *)
(***************************************************************************)
\* str.startswith('s3://')
HasS3Prefix(name) == Len(name) >= 3 /\ name[1] = "s3:" /\ name[2] = ""

\* name.replace('s3://' + name.split('/')[2], '').lstrip('/')
StripBucket(name) == SubSeq(name, 4, Len(name))

\* Lines 374-379: the destination is looked at only when the source has no prefix
SrcFile(i) == IF HasS3Prefix(src_list[i]) THEN StripBucket(src_list[i]) ELSE src_list[i]

DstFile(i) ==
    IF ~HasS3Prefix(src_list[i]) /\ HasS3Prefix(dst_list[i])
    THEN StripBucket(dst_list[i])
    ELSE dst_list[i]

\* Lines 365-366
UploadLengthsDiffer == NumFiles # Len(dst_list)

UploadCheck ==
    /\ op = "upload" /\ pc = "start"
    /\ IF UploadLengthsDiffer
       THEN /\ pc' = "raised"
            /\ raised' = "RuntimeError"
       ELSE /\ pc' = IF NumFiles = 0 THEN "done" ELSE "loop"
            /\ raised' = raised
    /\ UNCHANGED <<bucketVars, argVars, idx, calls, out, outcome, store0, fs0,
                   pair0, history, progressVars,
                   blist, md5_dict>>

\* Line 396: the md5sums differ
NeedsUploadBroken(src_file, dst_file) == FALSE

NeedsUpload(src_file, dst_file) == LocalMD5(src_file) # Stripped(store[dst_file].etag)

\* Lines 382-396: dst_key.get(), then the local file is read and compared
UploadGet ==
    /\ op = "upload" /\ pc = "loop"
    /\ \E r \in GetResults(DstFile(idx)) :
        /\ calls' = Append(calls, Call("get", idx, DstFile(idx), r))
        /\ out' = Append(out, Line("Uploading", idx))
        /\ CASE r = "ok" ->
                  IF ~IsFile(SrcFile(idx))
                  THEN Raise(idx, "IOError")
                  ELSE IF NeedsUpload(SrcFile(idx), DstFile(idx))
                       THEN /\ pc' = "upload_try"
                            /\ UNCHANGED <<idx, raised, outcome>>
                       ELSE NextIteration(idx, "skipped")
             [] r = "ClientError" ->
                  /\ pc' = "upload_except"
                  /\ UNCHANGED <<idx, raised, outcome>>
             [] OTHER -> Raise(idx, r)
    /\ pair0' = [store |-> store, fs |-> fs]
    /\ UNCHANGED <<bucketVars, argVars, store0, fs0, history, progressVars,
                   blist, md5_dict>>

\* bucket.upload_file cannot return for a path that is no regular file
UploadResults(path) == IF IsFile(path) THEN CallResults ELSE Failures

\* The object bucket.upload_file leaves at the key: a big file goes up in parts
Uploaded(path) ==
    Object(fs[path].body, fs[path].big,
           IF fs[path].big THEN MultipartETag(fs[path].body)
           ELSE SinglePartETag(fs[path].body),
           IF make_public THEN "public-read" ELSE "private",
           encrypt)

\* Lines 397-399: the upload made in the try block; except ClientError is its handler too
UploadTry ==
    /\ op = "upload" /\ pc = "upload_try"
    /\ \E r \in UploadResults(SrcFile(idx)) :
        /\ calls' = Append(calls, Call("upload_file", idx, DstFile(idx), r))
        /\ CASE r = "ok" ->
                  /\ store' = [store EXCEPT ![DstFile(idx)] = Uploaded(SrcFile(idx))]
                  /\ NextIteration(idx, "transferred")
             [] r = "ClientError" ->
                  /\ pc' = "upload_except"
                  /\ UNCHANGED <<store, idx, raised, outcome>>
             [] OTHER ->
                  /\ Raise(idx, r)
                  /\ store' = store
    /\ UNCHANGED <<fs, argVars, out, store0, fs0, pair0, history, progressVars,
                   blist, md5_dict>>

\* Lines 400-401: the upload made in the handler; ProgressPercentage(src_file)
\* needs os.path.getsize(src_file) first
UploadExcept ==
    /\ op = "upload" /\ pc = "upload_except"
    /\ IF ~PathExists(SrcFile(idx))
       THEN /\ Raise(idx, "OSError")
            /\ UNCHANGED <<store, calls>>
       ELSE \E r \in UploadResults(SrcFile(idx)) :
               /\ calls' = Append(calls, Call("upload_file", idx, DstFile(idx), r))
               /\ IF r = "ok"
                  THEN /\ store' = [store EXCEPT ![DstFile(idx)] = Uploaded(SrcFile(idx))]
                       /\ NextIteration(idx, "transferred")
                  ELSE /\ Raise(idx, r)
                       /\ store' = store
    /\ UNCHANGED <<fs, argVars, out, store0, fs0, pair0, history, progressVars,
                   blist, md5_dict>>

(***************************************************************************)
(* ProgressPercentage: __call__ as the transfer's worker threads run it.   *)
(***************************************************************************)
Workers == 1 .. NumWorkers

\* Line 49: with self._lock blocks until no thread holds the lock
LockIsFreeBroken == TRUE

LockIsFree == lock = NoThread

\* Line 41 and line 49: a worker calls the tracker with some byte count and
\* enters the with block
Acquire(t) ==
    /\ op = "progress" /\ tpc[t] = "idle" /\ tleft[t] > 0
    /\ LockIsFree
    /\ \E bytes_amount \in 0 .. MaxBytes :
        /\ tbytes' = [tbytes EXCEPT ![t] = bytes_amount]
        /\ passed' = passed + bytes_amount
    /\ lock' = t
    /\ tpc' = [tpc EXCEPT ![t] = "load"]
    /\ UNCHANGED <<size, seen_so_far, treg, tleft, stdout>>
    /\ UNCHANGED <<bucketVars, argVars, callVars>>

\* Line 50, first half: self._seen_so_far is read
LoadSeen(t) ==
    /\ op = "progress" /\ tpc[t] = "load"
    /\ treg' = [treg EXCEPT ![t] = seen_so_far]
    /\ tpc' = [tpc EXCEPT ![t] = "store"]
    /\ UNCHANGED <<size, seen_so_far, lock, tbytes, tleft, passed, stdout>>
    /\ UNCHANGED <<bucketVars, argVars, callVars>>

\* Line 50, second half: the sum is written back
StoreSeen(t) ==
    /\ op = "progress" /\ tpc[t] = "store"
    /\ seen_so_far' = treg[t] + tbytes[t]
    /\ tpc' = [tpc EXCEPT ![t] = "write"]
    /\ UNCHANGED <<size, lock, treg, tbytes, tleft, passed, stdout>>
    /\ UNCHANGED <<bucketVars, argVars, callVars>>

\* Line 51: the quotient is computed only for a size that is not zero
ComputesQuotientBroken == TRUE

ComputesQuotient == size # 0

\* Line 52 with a zero size: float division raises ZeroDivisionError
DivisionByZero == ComputesQuotient /\ size = 0

\* Lines 51-54, in hundredths of a percent, rounded as '{:.2f}' prints it
Percentage ==
    IF ComputesQuotient THEN (2 * seen_so_far * 10000 + size) \div (2 * size) ELSE 0

\* Lines 51-60: the progress line is written, the with block releases the lock
\* and the call returns, its frame gone; an exception raised inside the with
\* block releases the lock too and leaves the call with nothing written
WriteAndRelease(t) ==
    /\ op = "progress" /\ tpc[t] = "write"
    /\ IF DivisionByZero
       THEN /\ stdout' = stdout
            /\ tpc' = [tpc EXCEPT ![t] = "raised"]
       ELSE /\ stdout' = <<[seen |-> seen_so_far, size |-> size, percent |-> Percentage]>>
            /\ tpc' = [tpc EXCEPT ![t] = "idle"]
    /\ lock' = IF lock = t THEN NoThread ELSE lock
    /\ tleft' = [tleft EXCEPT ![t] = tleft[t] - 1]
    /\ treg' = [treg EXCEPT ![t] = 0]
    /\ tbytes' = [tbytes EXCEPT ![t] = 0]
    /\ UNCHANGED <<size, seen_so_far, passed>>
    /\ UNCHANGED <<bucketVars, argVars, callVars>>

(***************************************************************************)
(* md5_sum                                                                 *)
(***************************************************************************)
\* str.startswith, as the store applies Prefix to a key
StartsWith(name, pre) == Len(pre) <= Len(name) /\ SubSeq(name, 1, Len(pre)) = pre

\* sub in name
Contains(name, sub) ==
    \E i \in 1 .. Len(name) + 1 :
        i + Len(sub) - 1 <= Len(name) /\ SubSeq(name, i, i + Len(sub) - 1) = sub

\* The keys of the bucket in the order a listing yields them
ListingOrder == <<<<"a">>, <<"b">>, QualifiedKey>>

\* Line 92: bucket.objects.filter(Prefix=prefix), the stored keys under the prefix
Listed ==
    SelectSeq(ListingOrder, LAMBDA k : Exists(k) /\ StartsWith(k, prefix))

\* Line 98: the keys the filter string keeps
Retained(k) == Contains(k, filt_str)

\* Line 99 reads the attribute etag of a listed element.  The elements boto3
\* yields name their checksum e_tag, as lines 280 and 392 read it, so the
\* read raises AttributeError; an element that has an attribute of the name
\* read gives the checksum
EtagReads == {"ok", "AttributeError"}

\* Lines 92-96: the listing is fetched as the loop starts; its failure leaves
\* the function
Md5List ==
    /\ op = "md5_sum" /\ pc = "start"
    /\ \E r \in CallResults :
        /\ calls' = Append(calls, Call("filter", 0, prefix, r))
        /\ IF r = "ok"
           THEN /\ blist' = Listed
                /\ pc' = IF Listed = <<>> THEN "done" ELSE "loop"
                /\ raised' = raised
           ELSE /\ blist' = blist
                /\ pc' = "raised"
                /\ raised' = r
    /\ UNCHANGED <<bucketVars, argVars, idx, out, outcome, store0, fs0, pair0,
                   history, md5_dict, progressVars>>

\* Lines 96-102: one listed key
Md5Key ==
    /\ op = "md5_sum" /\ pc = "loop"
    /\ LET filename == blist[idx]
           more == IF idx + 1 > Len(blist) THEN "done" ELSE "loop"
       IN  IF Retained(filename)
           THEN \E r \in EtagReads :
                   /\ calls' = Append(calls, Call("etag", idx, filename, r))
                   /\ IF r = "ok"
                      THEN /\ md5_dict' = (filename :> Stripped(store[filename].etag)) @@ md5_dict
                           /\ out' = Append(Append(out, Line("filename", idx)),
                                            Line("md5_sum", idx))
                           /\ idx' = idx + 1
                           /\ pc' = more
                           /\ raised' = raised
                      ELSE /\ pc' = "raised"
                           /\ raised' = r
                           /\ UNCHANGED <<md5_dict, out, idx>>
           ELSE /\ idx' = idx + 1
                /\ pc' = more
                /\ UNCHANGED <<md5_dict, out, raised, calls>>
    /\ UNCHANGED <<bucketVars, argVars, outcome, store0, fs0, pair0, history,
                   blist, progressVars>>

(***************************************************************************)
(* A caller that, once the call has ended, makes it a second time with the *)
(* same arguments.                                                         *)
(***************************************************************************)
\* What is kept of a call that has ended
Finished ==
    [pc |-> pc, raised |-> raised, outcome |-> outcome,
     last |-> IF calls = <<>> THEN "" ELSE calls[Len(calls)].call,
     store0 |-> store0, fs0 |-> fs0]

CallAgain ==
    /\ Ended
    /\ history = <<>>
    /\ history' = Append(history, Finished)
    /\ pc' = "start"
    /\ idx' = 1
    /\ raised' = "none"
    /\ calls' = <<>>
    /\ out' = <<>>
    /\ outcome' = [i \in Pairs |-> "none"]
    /\ store0' = store
    /\ fs0' = fs
    /\ pair0' = [store |-> store, fs |-> fs]
    /\ UNCHANGED <<bucketVars, argVars, progressVars,
                   blist, md5_dict>>

(***************************************************************************)
(* Initial states.                                                         *)
(***************************************************************************)
Lists(S) == UNION {[1 .. n -> S] : n \in 0 .. MaxLen}

\* Objects present before the call: single-part uploads, private
StoredObjects == {Object(c, FALSE, SinglePartETag(c), "private", FALSE) : c \in Contents}

Stores ==
    {[k \in StoreKeys |-> IF k \in Keys THEN f[k] ELSE NoObject] :
        f \in [Keys -> StoredObjects \cup {NoObject}]}

NoProgress ==
    /\ size = 0
    /\ seen_so_far = 0
    /\ lock = NoThread
    /\ tpc = <<>>
    /\ treg = <<>>
    /\ tbytes = <<>>
    /\ tleft = <<>>
    /\ passed = 0
    /\ stdout = <<>>

CallStart ==
    /\ pc = "start"
    /\ idx = 1
    /\ raised = "none"
    /\ calls = <<>>
    /\ out = <<>>
    /\ outcome = [i \in Pairs |-> "none"]
    /\ store0 = store
    /\ fs0 = fs
    /\ pair0 = [store |-> store, fs |-> fs]
    /\ history = <<>>
    /\ blist = <<>>
    /\ md5_dict = <<>>

\* The defaults of md5_sum's prefix and filt_str: empty strings
NoFilter ==
    /\ prefix = <<>>
    /\ filt_str = <<>>

InitRename ==
    /\ op = "rename"
    /\ store \in Stores
    /\ fs = [p \in Paths |-> NoEntry]
    /\ src_list \in Lists(Keys)
    /\ dst_list \in Lists(Keys)
    /\ keep_old \in BOOLEAN
    /\ make_public \in BOOLEAN
    /\ encrypt = FALSE
    /\ CallStart
    /\ NoFilter
    /\ NoProgress

NextRename ==
    \/ RenameCheck
    \/ RenameSrcGet
    \/ RenameDstGet
    \/ RenameCopy
    \/ RenameDelete

SpecRename == InitRename /\ [][NextRename]_vars

\* s3_rename called, and called again
NextRenameTwice ==
    \/ RenameCheck
    \/ RenameSrcGet
    \/ RenameDstGet
    \/ RenameCopy
    \/ RenameDelete
    \/ CallAgain

SpecRenameTwice == InitRename /\ [][NextRenameTwice]_vars

InitDelete ==
    /\ op = "delete"
    /\ store \in Stores
    /\ fs = [p \in Paths |-> NoEntry]
    /\ src_list \in Lists(Keys)
    /\ dst_list = <<>>
    /\ keep_old = FALSE
    /\ make_public = FALSE
    /\ encrypt = FALSE
    /\ CallStart
    /\ NoFilter
    /\ NoProgress

NextDelete ==
    \/ DeleteStart
    \/ DeleteKey

SpecDelete == InitDelete /\ [][NextDelete]_vars

\* File systems: an entry lies in a directory
FileSystems(files) ==
    {f \in [Paths -> {NoEntry, Dir} \cup files] :
        \A p \in Paths : (f[p].kind # "none" /\ Len(p) > 1) => f[Dirname(p)].kind = "dir"}

DownloadPaths == {<<"f">>, <<"d">>, <<"d", "e", "h">>}

InitDownload ==
    /\ op = "download"
    /\ store \in Stores
    /\ fs \in FileSystems({File(c, FALSE) : c \in Contents})
    /\ src_list \in Lists(Keys)
    /\ dst_list \in Lists(DownloadPaths)
    /\ keep_old = FALSE
    /\ make_public = FALSE
    /\ encrypt = FALSE
    /\ CallStart
    /\ NoFilter
    /\ NoProgress

NextDownload ==
    \/ DownloadStart
    \/ DownloadGet
    \/ DownloadOverwrite
    \/ DownloadNew

SpecDownload == InitDownload /\ [][NextDownload]_vars

UploadSources == {<<"f">>, <<"d">>, QualifiedPath}

\* f is missing or a file of either size, d is a directory or another file
UploadFileSystems ==
    {f \in FileSystems({File("c1", FALSE), File("c1", TRUE), File("c2", FALSE)}) :
        /\ f[<<"d", "e">>] = NoEntry
        /\ f[<<"f">>] \in {NoEntry, File("c1", FALSE), File("c1", TRUE)}
        /\ f[<<"d">>] \in {Dir, File("c2", FALSE)}}

UploadStores == {s \in Stores : s[<<"b">>].body # "c1"}

InitUpload ==
    /\ op = "upload"
    /\ store \in UploadStores
    /\ fs \in UploadFileSystems
    /\ src_list \in Lists(UploadSources)
    /\ dst_list \in Lists(StoreKeys)
    /\ keep_old = FALSE
    /\ make_public \in BOOLEAN
    /\ encrypt \in BOOLEAN
    /\ CallStart
    /\ NoFilter
    /\ NoProgress

NextUpload ==
    \/ UploadCheck
    \/ UploadGet
    \/ UploadTry
    \/ UploadExcept

SpecUpload == InitUpload /\ [][NextUpload]_vars

\* s3_upload called, and called again, with plain paths and keys and no options
InitUploadTwice ==
    /\ op = "upload"
    /\ store \in UploadStores
    /\ fs \in UploadFileSystems
    /\ src_list \in Lists({<<"f">>, <<"d">>})
    /\ dst_list \in Lists(Keys)
    /\ keep_old = FALSE
    /\ make_public = FALSE
    /\ encrypt = FALSE
    /\ CallStart
    /\ NoFilter
    /\ NoProgress

NextUploadTwice ==
    \/ UploadCheck
    \/ UploadGet
    \/ UploadTry
    \/ UploadExcept
    \/ CallAgain

SpecUploadTwice == InitUploadTwice /\ [][NextUploadTwice]_vars

\* md5_sum over a bucket whose objects went up in one part or in several
ListedObjects == StoredObjects \cup {Object("c1", TRUE, MultipartETag("c1"), "private", FALSE)}

ListedPrefixes == {<<>>, <<"a">>, <<"s3:">>, <<"s3:", "">>, <<"bucket">>}

ListedFilters == {<<>>, <<"a">>, <<"b">>, <<"bucket", "a">>, <<"a", "b">>}

InitMd5Sum ==
    /\ op = "md5_sum"
    /\ store \in [StoreKeys -> ListedObjects \cup {NoObject}]
    /\ fs = [p \in Paths |-> NoEntry]
    /\ src_list = <<>>
    /\ dst_list = <<>>
    /\ keep_old = FALSE
    /\ make_public = FALSE
    /\ encrypt = FALSE
    /\ prefix \in ListedPrefixes
    /\ filt_str \in ListedFilters
    /\ CallStart
    /\ NoProgress

NextMd5Sum ==
    \/ Md5List
    \/ Md5Key

SpecMd5Sum == InitMd5Sum /\ [][NextMd5Sum]_vars

\* Either of the two operations that look a source key up in the bucket
InitRenameOrDownload == InitRename \/ InitDownload

NextRenameOrDownload ==
    \/ NextRename
    \/ NextDownload

SpecRenameOrDownload == InitRenameOrDownload /\ [][NextRenameOrDownload]_vars

\* Any one of the four bulk operations
InitBulk == InitRename \/ InitDelete \/ InitDownload \/ InitUpload

NextBulk ==
    \/ NextRename
    \/ NextDelete
    \/ NextDownload
    \/ NextUpload

SpecBulk == InitBulk /\ [][NextBulk]_vars

\* Lines 31-39: the tracker as __init__ leaves it, of a file or object of any size
InitProgress ==
    /\ op = "progress"
    /\ store = [k \in StoreKeys |-> NoObject]
    /\ fs = [p \in Paths |-> NoEntry]
    /\ src_list = <<>>
    /\ dst_list = <<>>
    /\ keep_old = FALSE
    /\ make_public = FALSE
    /\ encrypt = FALSE
    /\ CallStart
    /\ NoFilter
    /\ size \in 0 .. MaxBytes
    /\ seen_so_far = 0
    /\ lock = NoThread
    /\ tbytes = [t \in Workers |-> 0]
    /\ tleft \in [Workers -> 0 .. MaxChunks]
    /\ passed = 0
    /\ tpc = [t \in Workers |-> "idle"]
    /\ treg = [t \in Workers |-> 0]
    /\ stdout = <<>>

NextProgress ==
    \E t \in Workers :
        \/ Acquire(t)
        \/ LoadSeen(t)
        \/ StoreSeen(t)
        \/ WriteAndRelease(t)

SpecProgress == InitProgress /\ [][NextProgress]_vars

(***************************************************************************)
(* Properties.                                                             *)
(***************************************************************************)
\* The calls the current call made for pair i, in order
PairCalls(i) == SelectSeq(calls, LAMBDA c : c.idx = i)

\* The pair whose iteration is running, or has just ended
Cur == IF pc \in {"loop", "done"} THEN idx - 1 ELSE idx

Transfers == {"copy_from", "delete", "upload_file", "download_file", "makedirs"}

NoTransfer(cs) == \A j \in 1 .. Len(cs) : cs[j].call \notin Transfers

\* C1: when the two lists differ in length, rename, download and upload report
\* a contract violation before any pair is processed, and nothing is copied,
\* deleted, uploaded, downloaded or created.
C1_MismatchedListsRejected ==
    Len(src_list) # Len(dst_list) =>
        /\ pc \in {"start", "raised"}
        /\ pc = "raised" => raised \in {"ValueError", "RuntimeError"}
        /\ calls = <<>>
        /\ store = store0
        /\ fs = fs0

\* C2: with lists of equal length N, whatever the remote calls answer, the
\* call visits all N pairs and each ends skipped, transferred or failed; none
\* is left unvisited because an earlier pair failed.
C2_EveryPairVisited ==
    (Ended /\ Len(src_list) = Len(dst_list)) =>
        \A i \in Pairs : outcome[i] \in {"skipped", "transferred", "failed"}

\* C3: a rename pair whose destination key exists when the pair is processed
\* gets neither a copy nor a delete and leaves both keys as they were,
\* whatever the destination lookup reports.
C3_RenameNeverOverwrites ==
    (/\ op = "rename"
     /\ Len(src_list) = Len(dst_list)
     /\ Cur \in Pairs
     /\ pair0.store[dst_list[Cur]] # NoObject) =>
        /\ pc # "copy"
        /\ NoTransfer(PairCalls(Cur))
        /\ store = pair0.store

\* C4: a rename pair whose source exists and whose destination is absent,
\* and whose copy (and delete) succeed: without keep_old the source is gone
\* and the destination holds the content and checksum the source held; with
\* keep_old both keys hold them.
C4_RenameMoves ==
    (/\ op = "rename"
     /\ pc \in {"loop", "done"}
     /\ Cur \in Pairs
     /\ outcome[Cur] = "transferred"
     /\ pair0.store[src_list[Cur]] # NoObject
     /\ pair0.store[dst_list[Cur]] = NoObject) =>
        LET was == pair0.store[src_list[Cur]]
            src == store[src_list[Cur]]
            dst == store[dst_list[Cur]]
        IN  /\ dst.body = was.body
            /\ dst.etag = was.etag
            /\ keep_old => src = was
            /\ ~keep_old => src = NoObject

C4_Witness ==
    /\ op = "rename"
    /\ pc = "done"
    /\ NumFiles = 2
    /\ outcome = <<"transferred", "transferred">>
    /\ pair0.store[src_list[2]] # NoObject
    /\ pair0.store[dst_list[2]] = NoObject
    /\ store0[src_list[1]] # NoObject
    /\ store0[dst_list[1]] = NoObject

\* The first call completed every pair, or was interrupted between a copy and
\* its delete
LeftByRename(h) ==
    \/ h.pc = "done" /\ \A i \in DOMAIN h.outcome : h.outcome[i] = "transferred"
    \/ h.pc = "raised" /\ h.last = "delete"

\* C5: running rename again, with the same lists and flags, on a bucket a
\* rename call left behind makes no copy and no delete and leaves the bucket
\* as it is.
C5_RenameRerunIsNoOp ==
    (/\ op = "rename"
     /\ Len(history) = 1
     /\ LeftByRename(history[1])) =>
        /\ NoTransfer(calls)
        /\ store = store0

\* C6: s3_delete attempts the delete of every listed key once, in list
\* order, whichever deletes fail; the keys whose delete succeeded are absent
\* afterwards, every failure is printed, and the call returns.
C6_DeleteToleratesFailures ==
    op = "delete" =>
        /\ pc # "raised"
        /\ Ended =>
            /\ Len(calls) = NumFiles
            /\ \A i \in Pairs :
                /\ calls[i].call = "delete"
                /\ calls[i].idx = i
                /\ calls[i].key = src_list[i]
                /\ calls[i].result = "ok" => ~Exists(src_list[i])
                /\ calls[i].result # "ok" =>
                       \E j \in 1 .. Len(out) : out[j] = Line("Unable to delete bucket key", i)

C6_Witness ==
    /\ op = "delete"
    /\ pc = "done"
    /\ NumFiles = 2
    /\ src_list[1] # src_list[2]
    /\ store0[src_list[1]] # NoObject
    /\ store0[src_list[2]] # NoObject
    /\ calls[1].result = "OtherError"
    /\ calls[2].result = "ok"
    /\ Exists(src_list[1])
    /\ ~Exists(src_list[2])

\* Pair i was uploaded by the call before this one, and the object then
\* uploaded is still what the bucket holds as this call comes to the pair
UploadedBefore(i) ==
    /\ Len(history) = 1
    /\ history[1].outcome[i] = "transferred"
    /\ IsFile(SrcFile(i))
    /\ pair0.store[DstFile(i)] = Uploaded(SrcFile(i))

\* The pair the upload loop is at has got its lookup's answer
UploadAt(i) ==
    /\ op = "upload"
    /\ Len(src_list) = Len(dst_list)
    /\ pc # "start"
    /\ i \in Pairs
    /\ PairCalls(i) # <<>>

\* C7 as stated: once a pair has been uploaded, and file and object are as
\* they were, a second upload call makes no transfer for the pair and leaves
\* the bucket unchanged.
C7_SecondUploadSkips ==
    (UploadAt(Cur) /\ UploadedBefore(Cur)) =>
        /\ pc \notin {"upload_try", "upload_except"}
        /\ NoTransfer(PairCalls(Cur))
        /\ store = pair0.store

\* C7 as amended: once a pair has been uploaded in a single part, and file
\* and object are as they were, a second upload call whose lookup of the
\* destination returns the object skips the pair: it makes no transfer and
\* leaves the bucket unchanged.
C7_SecondUploadSkipsWhenFound ==
    (/\ UploadAt(Cur)
     /\ UploadedBefore(Cur)
     /\ ~fs[SrcFile(Cur)].big
     /\ PairCalls(Cur)[1].result = "ok") =>
        /\ pc \in {"loop", "done"}
        /\ outcome[Cur] = "skipped"
        /\ Len(PairCalls(Cur)) = 1
        /\ store = pair0.store

C7_Witness ==
    /\ UploadAt(Cur)
    /\ UploadedBefore(Cur)
    /\ ~fs[SrcFile(Cur)].big
    /\ PairCalls(Cur)[1].result = "ok"
    /\ history[1].pc = "done"
    /\ pc = "done"
    /\ outcome[Cur] = "skipped"

AllOk(cs) == \A j \in 1 .. Len(cs) : cs[j].call = "upload_file" => cs[j].result = "ok"

\* Pair i is the last of the list that names its destination key
LastFor(i) == \A j \in Pairs : j > i => DstFile(j) # DstFile(i)

\* C8 as stated: a file whose destination key does not exist is uploaded; one
\* whose key exists is uploaded exactly when its checksum differs from the
\* stored one, and is otherwise skipped without a write; after a call in
\* which no transfer fails every destination key holds the checksum of its
\* local source file.
C8_UploadDecision ==
    (op = "upload" /\ Len(src_list) = Len(dst_list)) =>
        /\ (pc \in {"loop", "done"} /\ Cur \in Pairs) =>
             LET dst == pair0.store[DstFile(Cur)]
             IN  /\ dst = NoObject => outcome[Cur] = "transferred"
                 /\ dst # NoObject =>
                      (outcome[Cur] = "transferred"
                         <=> LocalMD5(SrcFile(Cur)) # Stripped(dst.etag))
                 /\ outcome[Cur] = "skipped" =>
                      (store = pair0.store /\ NoTransfer(PairCalls(Cur)))
        /\ (pc = "done" /\ AllOk(calls)) =>
             \A i \in Pairs :
                 Stripped(store[DstFile(i)].etag) = LocalMD5(SrcFile(i))

\* C8 as amended: a file whose destination lookup raises ClientError is
\* uploaded whatever the bucket holds; one whose lookup returns the object is
\* uploaded exactly when its MD5 differs from the stored checksum, and is
\* otherwise skipped without a write; after a call that returns, every
\* destination key holds the content of the last source file paired with it,
\* and that file's MD5 as checksum unless the file went up in parts.
C8_UploadDecisionByLookup ==
    (op = "upload" /\ Len(src_list) = Len(dst_list)) =>
        /\ (pc \in {"loop", "done"} /\ Cur \in Pairs) =>
             LET dst == pair0.store[DstFile(Cur)]
                 looked == PairCalls(Cur)[1].result
             IN  /\ looked = "ClientError" => outcome[Cur] = "transferred"
                 /\ looked = "ok" =>
                      (outcome[Cur] = "transferred"
                         <=> LocalMD5(SrcFile(Cur)) # Stripped(dst.etag))
                 /\ outcome[Cur] = "transferred" =>
                      store[DstFile(Cur)] = Uploaded(SrcFile(Cur))
                 /\ outcome[Cur] = "skipped" =>
                      (store = pair0.store /\ NoTransfer(PairCalls(Cur)))
        /\ pc = "done" =>
             \A i \in Pairs :
                 LastFor(i) =>
                     /\ store[DstFile(i)].body = fs[SrcFile(i)].body
                     /\ ~fs[SrcFile(i)].big =>
                          Stripped(store[DstFile(i)].etag) = LocalMD5(SrcFile(i))

C8_Witness ==
    /\ op = "upload"
    /\ pc = "done"
    /\ history = <<>>
    /\ NumFiles = 2
    /\ DstFile(1) # DstFile(2)
    /\ store0[DstFile(1)] # NoObject
    /\ store0[DstFile(2)] # NoObject
    /\ LocalMD5(SrcFile(1)) # Stripped(store0[DstFile(1)].etag)
    /\ calls[1].result = "ok"
    /\ outcome = <<"transferred", "skipped">>

\* C9: a download pair whose remote object is found and whose destination
\* path is an existing directory gets no download, the directory and
\* the rest of the file system stay as they were, the pair is skipped and the
\* call goes on with the next pair.
C9_DirectoryDestinationSkipped ==
    (/\ op = "download"
     /\ pc # "start"
     /\ Cur \in Pairs
     /\ Cur <= Len(dst_list)
     /\ PairCalls(Cur) # <<>>
     /\ PairCalls(Cur)[1].result = "ok"
     /\ pair0.fs[dst_list[Cur]].kind = "dir") =>
        /\ pc \in {"loop", "done"}
        /\ outcome[Cur] = "skipped"
        /\ NoTransfer(PairCalls(Cur))
        /\ fs = pair0.fs

\* No call of the tracker is in progress
AllReturned == \A t \in Workers : tpc[t] = "idle"

\* C10: however the workers' calls of the tracker interleave, no increment is
\* lost: once every call has returned, the total equals the sum of the byte
\* counts passed, and the total never decreases.
C10_NoLostUpdate ==
    /\ [](AllReturned => seen_so_far = passed)
    /\ [][seen_so_far' >= seen_so_far]_vars

C10_Witness ==
    /\ op = "progress"
    /\ AllReturned
    /\ \A t \in Workers : tleft[t] = 0
    /\ passed = NumWorkers * MaxChunks * MaxBytes
    /\ stdout = <<[seen |-> passed, size |-> size, percent |-> Percentage]>>
    /\ size > 0

\* C11: a tracker made for a size of zero writes a percentage of exactly 0 at
\* every call, whatever byte counts it is given, and no call divides by the
\* zero size.
C11_ZeroSizeReportsZero ==
    (op = "progress" /\ size = 0) =>
        /\ \A t \in Workers : tpc[t] # "raised"
        /\ stdout # <<>> => stdout[1].percent = 0
        /\ (AllReturned /\ passed > 0) => stdout # <<>>

C11_Witness ==
    /\ op = "progress"
    /\ size = 0
    /\ AllReturned
    /\ \A t \in Workers : tleft[t] = 0
    /\ passed = NumWorkers * MaxChunks * MaxBytes
    /\ stdout = <<[seen |-> passed, size |-> 0, percent |-> 0]>>

\* The stored keys that start with the prefix and contain the filter string
Wanted == {k \in StoreKeys : Exists(k) /\ StartsWith(k, prefix) /\ Contains(k, filt_str)}

\* C12: when the listing succeeds, md5_sum returns a mapping whose keys are
\* exactly the stored keys that start with the prefix and contain the filter
\* string, each with the checksum the store reports for it, its quotes
\* removed; the bucket is left as it was.
C12_ListChecksums ==
    (op = "md5_sum" /\ Ended /\ calls[1].result = "ok") =>
        /\ pc = "done"
        /\ DOMAIN md5_dict = Wanted
        /\ \A k \in Wanted : md5_dict[k] = Strip(store[k].etag)
        /\ store = store0

\* The transfer call of pair i failed
TransferFailed(i, name) ==
    \E j \in 1 .. Len(PairCalls(i)) :
        PairCalls(i)[j].call = name /\ PairCalls(i)[j].result # "ok"

Printed(text, i) == \E j \in 1 .. Len(out) : out[j] = Line(text, i)

\* C13: a download whose transfer fails, over an existing file of another
\* checksum or to a path not there yet, is caught and printed at its pair,
\* and the call goes on with the next pair.
C13_DownloadFailureCaught ==
    (/\ op = "download"
     /\ Cur \in Pairs
     /\ TransferFailed(Cur, "download_file")) =>
        /\ pc \in {"loop", "done"}
        /\ outcome[Cur] = "failed"
        /\ Printed("Could not download file", Cur)

\* The lookup of the source of pair i found no object under the key
SourceNotFound(i) ==
    /\ op \in {"rename", "download"}
    /\ pc # "start"
    /\ i \in Pairs
    /\ PairCalls(i) # <<>>
    /\ pair0.store[src_list[i]] = NoObject
    /\ PairCalls(i)[1].result = "ClientError"

\* C14: in rename and in download a pair whose source key is not in the
\* bucket is skipped: nothing is copied, deleted, downloaded or created for
\* it, bucket and file system are as they were before the pair, and the call
\* goes on with the next pair.
C14_MissingSourceSkipped ==
    SourceNotFound(Cur) =>
        /\ pc \in {"loop", "done"}
        /\ outcome[Cur] = "skipped"
        /\ Len(PairCalls(Cur)) = 1
        /\ store = pair0.store
        /\ fs = pair0.fs
        /\ \/ Printed("source does not exist, skipping", Cur)
           \/ Printed("does not exist in S3 bucket, Skipping", Cur)

C14_Witness ==
    /\ op = "rename"
    /\ pc = "done"
    /\ NumFiles = 2
    /\ store0[src_list[1]] = NoObject
    /\ calls[1].result = "ClientError"
    /\ outcome = <<"skipped", "transferred">>

\* C15: in upload a destination lookup that fails, whatever the failure
\* (not found, permission, network), is taken as not found: the local file is
\* uploaded afresh for the pair, and unless that upload itself fails the call
\* goes on with the next pair.
C15_LookupFailureUploads ==
    (/\ UploadAt(Cur)
     /\ PairCalls(Cur)[1].result \in Failures
     /\ IsFile(SrcFile(Cur))) =>
        /\ pc = "raised" => TransferFailed(Cur, "upload_file")
        /\ pc \in {"loop", "done"} =>
              /\ outcome[Cur] = "transferred"
              /\ store[DstFile(Cur)] = Uploaded(SrcFile(Cur))

\* C16: an upload pair whose local source path is a directory makes no
\* transfer and raises no error, whether or not its destination key exists;
\* the pair is passed over and the call goes on with the pairs after it.
\* Stated for a lookup that returns the object or reports a client error.
C16_DirectorySourceSkipped ==
    (/\ UploadAt(Cur)
     /\ IsDir(SrcFile(Cur))
     /\ PairCalls(Cur)[1].result \in {"ok", "ClientError"}) =>
        /\ pc # "raised"
        /\ NoTransfer(PairCalls(Cur))
        /\ store = pair0.store
        /\ pc \in {"loop", "done"} => outcome[Cur] = "skipped"

\* The lookup of download pair i returned the object, and as the pair began
\* its destination was no directory and lay below no regular file
DownloadFound(i) ==
    /\ op = "download"
    /\ pc # "start"
    /\ i \in Pairs
    /\ i <= Len(dst_list)
    /\ PairCalls(i) # <<>>
    /\ PairCalls(i)[1].result = "ok"
    /\ pair0.fs[dst_list[i]].kind # "dir"
    /\ \A q \in Prefixes(Dirname(dst_list[i])) : pair0.fs[q].kind # "file"

\* C17: a download pair whose remote object exists and whose destination is
\* no directory is downloaded when the destination does not exist, downloaded
\* again when the destination is a file of another checksum, and left
\* untouched when the checksums are equal; unless its transfer fails, the
\* destination file then has the stored checksum of its key, and the bucket
\* is unchanged.
C17_DownloadDecision ==
    DownloadFound(Cur) =>
        LET was == pair0.fs[dst_list[Cur]]
            etag == Strip(store[src_list[Cur]].etag)
        IN  /\ pc = "raised" => TransferFailed(Cur, "download_file")
            /\ pc \in {"loop", "done"} =>
                  /\ was.kind = "none" => outcome[Cur] = "transferred"
                  /\ (was.kind = "file" /\ MD5(was.body) # etag) =>
                        outcome[Cur] \in {"transferred", "failed"}
                  /\ (was.kind = "file" /\ MD5(was.body) = etag) =>
                        (outcome[Cur] = "skipped" /\ fs = pair0.fs)
                  /\ outcome[Cur] # "failed" => LocalMD5(dst_list[Cur]) = etag
            /\ store = store0

\* The lookup of download pair i returned the object, and no regular file
\* lay on the way to the pair's destination as the pair began
DownloadReached(i) ==
    /\ op = "download"
    /\ pc # "start"
    /\ i \in Pairs
    /\ i <= Len(dst_list)
    /\ PairCalls(i) # <<>>
    /\ PairCalls(i)[1].result = "ok"
    /\ \A q \in Prefixes(Dirname(dst_list[i])) : pair0.fs[q].kind # "file"

\* C19: for a download pair whose remote object exists, the directory of the
\* destination is there, made with its parents when it was missing, before
\* the pair is skipped, overwritten or downloaded, and the pair comes to that
\* decision; so for every destination path, one of a single component
\* included.
C19_ParentDirectoryEnsured ==
    DownloadReached(Cur) =>
        /\ raised # "OSError"
        /\ ParentIsDir(dst_list[Cur])
        /\ \A q \in Prefixes(Dirname(dst_list[Cur])) : IsDir(q)
        /\ \/ pc \in {"overwrite", "download"}
           \/ pc \in {"loop", "done"} /\ outcome[Cur] \in {"skipped", "transferred", "failed"}
           \/ pc = "raised" /\ TransferFailed(Cur, "download_file")

\* C18: in rename the delete of a source is issued only after the copy of
\* the same pair to its destination has returned; after a copy that failed no
\* delete is issued, and with keep_old no delete is issued for any pair.
C18_DeleteFollowsCopy ==
    op = "rename" =>
        /\ \A j \in 1 .. Len(calls) :
              calls[j].call = "delete" =>
                  /\ ~keep_old
                  /\ j > 1
                  /\ calls[j - 1] = Call("copy_from", calls[j].idx, dst_list[calls[j].idx], "ok")
                  /\ calls[j].key = src_list[calls[j].idx]
        /\ \A j \in 1 .. Len(calls) :
              (calls[j].call = "copy_from" /\ calls[j].result # "ok") =>
                  (j = Len(calls) /\ pc = "raised")
        /\ pc = "delete" => calls[Len(calls)] = Call("copy_from", idx, dst_list[idx], "ok")

C18_Witness ==
    /\ op = "rename"
    /\ ~keep_old
    /\ NumFiles = 2
    /\ pc = "raised"
    /\ outcome = <<"transferred", "failed">>
    /\ Len(calls) = 7
    /\ calls[3].call = "copy_from" /\ calls[3].result = "ok"
    /\ calls[4].call = "delete" /\ calls[4].result = "ok"
    /\ calls[7].call = "copy_from" /\ calls[7].result = "ClientError"

\* C20: at every point of a rename call, whatever keys the lists repeat or
\* share and whatever the lookups answer, the content each existing source
\* key held when the call began is stored under that key or under the
\* destination key paired with it.
C20_RenameKeepsContent ==
    (op = "rename" /\ Len(src_list) = Len(dst_list)) =>
        \A i \in Pairs :
            store0[src_list[i]] # NoObject =>
                \/ store[src_list[i]].body = store0[src_list[i]].body
                \/ \E j \in Pairs :
                      /\ src_list[j] = src_list[i]
                      /\ store[dst_list[j]].body = store0[src_list[i]].body

\* The keys the first list names, and those the second list names: for upload
\* a destination is the key its s3://bucket/ form stands for
SourceKeys == {src_list[i] : i \in DOMAIN src_list}

DestinationKeys ==
    IF op = "upload"
    THEN {DstFile(i) : i \in DOMAIN src_list \cap DOMAIN dst_list}
    ELSE {dst_list[i] : i \in DOMAIN dst_list}

CallsOf(name) == {calls[j].key : j \in {n \in 1 .. Len(calls) : calls[n].call = name}}

\* C21: a bulk operation touches only the keys it is given.  A key in none of
\* its lists exists or not, with the same object, as before the call; rename
\* writes destination keys only and deletes source keys only, upload writes
\* destination keys only and deletes nothing, delete removes listed keys
\* only, and download leaves the bucket as it is.
C21_OnlyListedKeysTouched ==
    /\ \A k \in StoreKeys :
          store[k] # store0[k] =>
              CASE op = "rename" ->
                     IF store[k] = NoObject THEN k \in SourceKeys ELSE k \in DestinationKeys
                [] op = "delete" -> store[k] = NoObject /\ k \in SourceKeys
                [] op = "upload" -> store[k] # NoObject /\ k \in DestinationKeys
                [] OTHER -> FALSE
    /\ op = "rename" =>
          (CallsOf("copy_from") \subseteq DestinationKeys /\ CallsOf("delete") \subseteq SourceKeys)
    /\ op = "delete" => CallsOf("delete") \subseteq SourceKeys
    /\ op = "upload" =>
          (CallsOf("upload_file") \subseteq DestinationKeys /\ CallsOf("delete") = {})
    /\ op = "download" => store = store0

C21_Witness ==
    /\ op = "upload"
    /\ pc = "done"
    /\ NumFiles = 1
    /\ dst_list[1] = QualifiedKey
    /\ DstFile(1) = <<"a">>
    /\ outcome = <<"transferred">>
    /\ store[<<"a">>] # store0[<<"a">>]
    /\ store0[<<"b">>] # NoObject
    /\ store[<<"b">>] = store0[<<"b">>]

\* C22: upload calls upload_file at most once for a pair, whatever the
\* destination lookup and the transfer answer; a transfer begun for a
\* checksum mismatch that fails with a client error is not begun again.
C22_OneTransferPerPair ==
    op = "upload" =>
        \A i \in Pairs :
            Len(SelectSeq(PairCalls(i), LAMBDA c : c.call = "upload_file")) <= 1

====
